---- MODULE Spec2Model ----
(***************************************************************************)
(* Model of edgar_105_to_json.py: the paging fetch loop of get_filings,    *)
(* the per-hit field extraction and index-page request, the widening       *)
(* window search of analyze_impact, and the assembling loop and final      *)
(* write of main.                                                          *)
(*                                                                         *)
(* Strings are sequences of tokens (a token is a run of characters that    *)
(* the code never looks inside): 'N/A' is <<"N/A">>, '' is <<>>.           *)
(* An optional value (Python None or a value) is a set of at most one      *)
(* element: None is {}, a value v is {v}.                                  *)
(***************************************************************************)
EXTENDS Integers, Sequences, FiniteSets, TLC

\* ---------------------------------------------------------------- bounds
\* page_size is 100 in the source (line 56); the model scales it down.
page_size == 2
\* the largest max_results argument tried
MaxResults == 3
\* the search service holds at most this many hits over the whole run
MaxHits == 2

\* ------------------------------------------------------- string helpers
None == {}
Some(v) == {v}
Val(o) == CHOOSE v \in o : TRUE

NA == <<"N/A">>

Min(a, b) == IF a < b THEN a ELSE b

\* positions of token t in string s
Positions(s, t) == {p \in 1..Len(s) : s[p] = t}
FirstPos(s, t) == CHOOSE p \in Positions(s, t) : \A q \in Positions(s, t) : p <= q

\* s.split(sep)[0]: the text before the first separator (the whole string
\* when there is none)
SplitFirst(s, sep) ==
    IF Positions(s, sep) = {} THEN s ELSE SubSeq(s, 1, FirstPos(s, sep) - 1)

\* number of parts of s.split(sep)
SplitCount(s, sep) == Cardinality(Positions(s, sep)) + 1

\* s.split(sep)[1]: the text between the first and the second separator;
\* only defined when SplitCount(s, sep) >= 2
SplitSecond(s, sep) ==
    LET rest == SubSeq(s, FirstPos(s, sep) + 1, Len(s))
    IN  SplitFirst(rest, sep)

\* s.replace(t, '')
RECURSIVE Remove(_, _)
Remove(s, t) ==
    IF s = <<>> THEN <<>>
    ELSE IF Head(s) = t THEN Remove(Tail(s), t)
         ELSE <<Head(s)>> \o Remove(Tail(s), t)

\* re.findall(r'\((.*?)\)', s): the groups of the non-overlapping leftmost
\* shortest matches of "( ... )"
RECURSIVE ParenGroups(_)
ParenGroups(s) ==
    IF Positions(s, "(") = {} THEN <<>>
    ELSE LET o    == FirstPos(s, "(")
             rest == SubSeq(s, o + 1, Len(s))
         IN  IF Positions(rest, ")") = {} THEN <<>>
             ELSE LET c == FirstPos(rest, ")")
                  IN  <<SubSeq(rest, 1, c - 1)>>
                          \o ParenGroups(SubSeq(rest, c + 1, Len(rest)))

\* m[0].startswith("CIK ")
StartsWithCIK(g) == Len(g) >= 1 /\ g[1] = "CIK "

\* lines 92-96: ticker derived from the first display name
Ticker(display_names) ==
    IF display_names = <<>> THEN NA
    ELSE LET m == ParenGroups(display_names[1])
         IN  IF m # <<>> /\ ~StartsWithCIK(m[1])
             THEN SplitFirst(m[1], ",")
             ELSE NA

\* ------------------------------------------------------------ the hits
\* A search hit: _source.display_names, _source.ciks, _source.file_date,
\* _source.adsh and _id; an absent key is None.
Adsh == <<"0000320193", "-", "24", "-", "000010">>

HitFull ==
    [display_names |-> << <<"Acme Corp ", "(", "ACME", ",", " Inc.", ")">> >>,
     ciks |-> << <<"320193">> >>, file_date |-> Some(<<"D1">>),
     adsh |-> Some(Adsh), id |-> Some(Adsh \o <<":", "doc1.htm">>)]

HitCik ==
    [HitFull EXCEPT !.display_names =
        << <<"Acme Corp ", "(", "CIK ", "0001234567", ")">> >>]

HitPlain == [HitFull EXCEPT !.display_names = << <<"Acme Corp ">> >>]

HitBare ==
    [display_names |-> <<>>, ciks |-> <<>>, file_date |-> None,
     adsh |-> None, id |-> None]

HitNoColon == [HitFull EXCEPT !.id = Some(Adsh)]

HitShapes == {HitFull, HitCik, HitPlain, HitBare, HitNoColon}

\* the hits.total.value a response may report: 0 also stands for a response
\* without the key (line 74), MaxHits + 1 for more than is ever fetched
TotalValues == {0, MaxHits + 1}

\* lines 79-89: does the extraction of the hit's fields raise?
\* f.get('_id', 'N/A').split(':')[1] raises IndexError when a non-empty _id
\* has no ':'.
ExtractRaises(f) ==
    /\ f.id # None
    /\ Val(f.id) # <<>>
    /\ SplitCount(Val(f.id), ":") < 2

\* lines 79-96 and 100-109: the record built for hit f once the index-page
\* request returned published_timestamp ts; n is the hit's ordinal in the
\* stream of hits received, standing for the identity of the filing
MakeRecord(f, n, ts) ==
    LET company_name == IF f.display_names # <<>> THEN f.display_names[1] ELSE NA
        cik          == IF f.ciks # <<>> THEN f.ciks[1] ELSE NA
        filing_date  == IF f.file_date # None THEN Val(f.file_date) ELSE NA
        adsh         == IF f.adsh # None THEN Val(f.adsh) ELSE NA
        doc_id       == IF f.id # None /\ Val(f.id) # <<>>
                        THEN SplitSecond(Val(f.id), ":") ELSE NA
        dir          == <<"https://www.sec.gov/Archives/edgar/data/">>
                            \o cik \o <<"/">> \o Remove(adsh, "-") \o <<"/">>
    IN  [hit |-> n,
         company_name |-> company_name,
         cik |-> cik,
         filing_date |-> filing_date,
         filing_href |-> dir \o adsh \o <<"-index.htm">>,
         document_href |-> dir \o doc_id,
         ticker |-> Ticker(f.display_names),
         published_timestamp |-> ts]

\* lines 46-50: the timestamp taken from the info-div contents of the page
TimestampOf(match) == IF Len(match) >= 2 THEN Some(match[2]) ELSE None

\* the info-div contents an index page may carry
IndexPages ==
    {<<>>, << <<"Form 8-K">> >>, << <<"Form 8-K">>, <<"TODAY", " ", "16:05:03">> >>}

\* ----------------------------------------------------------- the dates
\* Calendar days are integers; day mod 7 is the weekday, 0 = Monday.
\* "D1" is a Sunday (its first window holds one business day, the Monday;
\* the wider ones run from a weekday to a later one), "TODAY" the run's UTC
\* date.
DateTokens == {"D1", "TODAY"}
DayOf(tok) == CASE tok = "D1" -> 13 [] tok = "TODAY" -> 17

\* pd.to_datetime(s).normalize(): the day, or None when parsing raises.
\* Reference strings are never empty in the inputs enumerated here.
ToDatetime(s) ==
    IF Len(s) = 1 /\ s[1] \in DateTokens THEN Some(DayOf(s[1])) ELSE None

\* datetime.utcnow().date()
UtcToday == DayOf("TODAY")

\* pd.bdate_range(start, end): the weekdays of start..end
BDateRange(start, end) == {d \in start..end : d % 7 < 5}

SetMin(S) == CHOOSE x \in S : \A y \in S : x <= y
SetMax(S) == CHOOSE x \in S : \A y \in S : x >= y

\* ------------------------------------------------------ the price data
Closes == {0, 1}

\* the tables yf.download may return for a window: daily bars (day |-> close)
\* on any of the window start, the reference day and the window end
Tables(dmin, fd, dmax) ==
    UNION {[idx -> Closes] : idx \in SUBSET {dmin, fd, dmax}}

NullTriple == [price_before |-> None, price_after |-> None, pct_change |-> None]

\* line 152; closes are such that the division is exact
Pct(before, after) == ((after - before) * 100) \div before

\* lines 145-155: what one iteration of the widening loop makes of the
\* table df: "widen" (continue) or "return" with a triple.
\* kind names the branch taken.
IterationMut2(df, dmin, dmax) ==
    IF DOMAIN df = {} THEN [kind |-> "empty", ret |-> None]
    ELSE IF dmax \notin DOMAIN df THEN [kind |-> "no_end", ret |-> None]
    ELSE IF dmin \notin DOMAIN df THEN [kind |-> "lookup", ret |-> None]
    ELSE [kind |-> "ok",
          ret |-> Some([price_before |-> Some(df[dmin]),
                        price_after |-> Some(df[dmax]),
                        pct_change |-> IF df[dmin] = 0 THEN None
                                       ELSE Some(Pct(df[dmin], df[dmax]))])]

Iteration(df, dmin, dmax) ==
    IF DOMAIN df = {} THEN [kind |-> "empty", ret |-> None]
    ELSE IF dmax \notin DOMAIN df THEN [kind |-> "no_end", ret |-> None]
    \* df.loc[dr.min(), 'Close'] raises KeyError: caught, continue
    ELSE IF dmin \notin DOMAIN df THEN [kind |-> "lookup", ret |-> None]
    \* float division by zero raises ZeroDivisionError: caught, continue
    ELSE IF df[dmin] = 0 THEN [kind |-> "lookup", ret |-> None]
    ELSE [kind |-> "ok",
          ret |-> Some([price_before |-> Some(df[dmin]),
                        price_after |-> Some(df[dmax]),
                        pct_change |-> Some(Pct(df[dmin], df[dmax]))])]

\* line 119
Unresolved(ticker) == ticker = <<>> \/ ticker = NA

\* line 170: (published_timestamp or filing_date or '').split(' ')[0]
RefDate(f) ==
    LET s == IF f.published_timestamp # None /\ Val(f.published_timestamp) # <<>>
             THEN Val(f.published_timestamp)
             ELSE f.filing_date
    IN  SplitFirst(s, " ")

\* ------------------------------------------------------------ the state
VARIABLES
    max_results,      \* argument of get_filings
    pc,               \* position of the single thread of control
    fetched,          \* get_filings: cumulative count of hits fetched
    total_available,  \* get_filings: None until the first page reports it
    filings,          \* get_filings: the hits of the current page
    i,                \* get_filings: position of the current hit in the page
    ts,               \* published_timestamp returned for the current hit
    results,          \* get_filings: the records appended so far
    k,                \* main: position in results of the record to enrich
    enriched,         \* main: the records with their price fields
    call,             \* analyze_impact: the current (or last) call
    written,          \* the output file: None, or the payload written
    abort,            \* the exception that ended the run, "none" otherwise
    received,         \* history: every hit received, in order
    searches,         \* history: search requests issued
    indexed           \* history: index-page requests completed

vars == <<max_results, pc, fetched, total_available, filings, i, ts, results,
          k, enriched, call, written, abort, received, searches, indexed>>

fetchVars == <<fetched, total_available, filings, i, ts, results, received,
               searches, indexed>>
mainVars == <<k, enriched, call, written>>

\* analyze_impact has not been called yet
NoCall ==
    [n |-> 0, ticker |-> <<>>, date |-> <<>>, fd |-> None, start_delta |-> 0,
     end_delta |-> 0, reqs |-> 0, fault |-> "none", faultReqs |-> 0,
     ret |-> None]

Init ==
    /\ max_results \in {0, 1, MaxResults}
    /\ pc = "loop"
    /\ fetched = 0
    /\ total_available = None
    /\ filings = <<>>
    /\ i = 1
    /\ ts = None
    /\ results = <<>>
    /\ k = 1
    /\ enriched = <<>>
    /\ call = NoCall
    /\ written = None
    /\ abort = "none"
    /\ received = <<>>
    /\ searches = 0
    /\ indexed = 0

\* ---------------------------------------------------------- get_filings
\* line 59: the while condition holds
LoopGuardMut == fetched <= max_results

LoopGuard == fetched < max_results

\* lines 69-70: the search request fails; the exception leaves get_filings
\* and main
SearchFailsMut ==
    /\ pc = "loop"
    /\ LoopGuard
    /\ searches' = searches + 1
    /\ pc' = "enrich"
    /\ abort' = "search"
    /\ UNCHANGED <<max_results, fetched, total_available, filings, i, ts,
                   results, received, indexed, mainVars>>

SearchFails ==
    /\ pc = "loop"
    /\ LoopGuard
    /\ searches' = searches + 1
    /\ pc' = "aborted"
    /\ abort' = "search"
    /\ UNCHANGED <<max_results, fetched, total_available, filings, i, ts,
                   results, received, indexed, mainVars>>

\* lines 69-76: a search request answered with the hits page and the total
\* value; an empty page ends the loop
SearchPage(page, value) ==
    /\ pc = "loop"
    /\ LoopGuard
    /\ searches' = searches + 1
    /\ filings' = page
    /\ received' = received \o page
    /\ total_available' = IF total_available = None THEN Some(value)
                          ELSE total_available
    /\ i' = 1
    /\ pc' = IF page = <<>> THEN "enrich" ELSE "hit"
    /\ UNCHANGED <<max_results, fetched, ts, results, indexed, mainVars, abort>>

\* line 59 and line 116: the while condition fails, get_filings returns
LoopExit ==
    /\ pc = "loop"
    /\ ~LoopGuard
    /\ pc' = "enrich"
    /\ UNCHANGED <<max_results, fetchVars, mainVars, abort>>

\* lines 79-89: extracting the fields of the current hit raises
ExtractFails ==
    /\ pc = "hit"
    /\ ExtractRaises(filings[i])
    /\ pc' = "aborted"
    /\ abort' = "extract"
    /\ UNCHANGED <<max_results, fetchVars, mainVars>>

\* lines 98, 44-45: the index-page request of the current hit fails;
\* raise_for_status (or the transport) raises and nothing catches it
IndexFails ==
    /\ pc = "hit"
    /\ ~ExtractRaises(filings[i])
    /\ pc' = "aborted"
    /\ abort' = "index"
    /\ UNCHANGED <<max_results, fetchVars, mainVars>>

\* lines 98, 44-50: the index page of the current hit is fetched and the
\* timestamp extracted from its info-divs
IndexPage(match) ==
    /\ pc = "hit"
    /\ ~ExtractRaises(filings[i])
    /\ indexed' = indexed + 1
    /\ ts' = TimestampOf(match)
    /\ pc' = "append"
    /\ UNCHANGED <<max_results, fetched, total_available, filings, i, results,
                   received, searches, mainVars, abort>>

\* lines 100-109: the record of the current hit is appended
AppendRecordMut ==
    /\ pc = "append"
    /\ results' = <<MakeRecord(filings[i], Len(received) - Len(filings) + i, ts)>>
                      \o results
    /\ ts' = None
    /\ i' = i + 1
    /\ pc' = IF i = Len(filings) THEN "page_end" ELSE "hit"
    /\ UNCHANGED <<max_results, fetched, total_available, filings, received,
                   searches, indexed, mainVars, abort>>

AppendRecord ==
    /\ pc = "append"
    /\ results' = Append(results,
                    MakeRecord(filings[i], Len(received) - Len(filings) + i, ts))
    /\ ts' = None
    /\ i' = i + 1
    /\ pc' = IF i = Len(filings) THEN "page_end" ELSE "hit"
    /\ UNCHANGED <<max_results, fetched, total_available, filings, received,
                   searches, indexed, mainVars, abort>>

\* line 113: the break condition after a page
PageBreakMut(n) == n >= Val(total_available)

PageBreak(n) == n >= Val(total_available) \/ Len(filings) < page_size

\* lines 111-114: end of a page
PageEnd ==
    /\ pc = "page_end"
    /\ fetched' = fetched + Len(filings)
    /\ pc' = IF PageBreak(fetched') THEN "enrich" ELSE "loop"
    /\ UNCHANGED <<max_results, total_available, filings, i, ts, results,
                   received, searches, indexed, mainVars, abort>>

\* ------------------------------------------------------- analyze_impact
\* The record call describes the current call of analyze_impact, or the
\* last one once it returned: n is the position of the filing it is for,
\* ticker and date its arguments, fd the parsed date, start_delta and
\* end_delta the loop variables, ret its result (None while it runs).
\* reqs counts the downloads requested; fault is the last fault met
\* ("download": yf.download raised, "lookup": reading a close raised) and
\* faultReqs the value of reqs when it was met.

\* lines 119-127: the call returns all-null before the loop
EarlyReturnMut(ticker, date) ==
    \/ Unresolved(ticker)
    \/ ToDatetime(date) = None

EarlyReturn(ticker, date) ==
    \/ Unresolved(ticker)
    \/ ToDatetime(date) = None
    \/ Val(ToDatetime(date)) = UtcToday

\* the call returns triple to main
Return(c, triple) ==
    /\ call' = [c EXCEPT !.ret = Some(triple)]
    /\ pc' = "attach"
    /\ UNCHANGED <<k, enriched>>

\* lines 169-171, 119-130: main calls analyze_impact for the next record
Analyze ==
    /\ pc = "enrich"
    /\ k <= Len(results)
    /\ LET f == results[k]
           c == [NoCall EXCEPT !.n = k, !.ticker = f.ticker, !.date = RefDate(f)]
       IN  IF EarlyReturn(c.ticker, c.date)
           THEN Return(c, NullTriple)
           ELSE /\ call' = [c EXCEPT !.fd = ToDatetime(c.date),
                                     !.start_delta = 1, !.end_delta = 1]
                /\ pc' = "window"
                /\ UNCHANGED <<k, enriched>>
    /\ UNCHANGED <<max_results, fetchVars, written, abort>>

\* line 131
WindowGuard == call.start_delta + call.end_delta < 10

\* lines 132-135: the window's first and last business day
WindowMin == SetMin(BDateRange(Val(call.fd) - call.start_delta,
                               Val(call.fd) + call.end_delta))
WindowMax == SetMax(BDateRange(Val(call.fd) - call.start_delta,
                               Val(call.fd) + call.end_delta))

\* start_delta += 1; end_delta += 1; continue
WidenMut(c) == [c EXCEPT !.start_delta = @ + 1]

Widen(c) == [c EXCEPT !.start_delta = @ + 1, !.end_delta = @ + 1]

\* lines 136-144: yf.download raises
DownloadRaisesMut ==
    /\ pc = "window"
    /\ WindowGuard
    /\ call' = Widen([call EXCEPT !.reqs = @ + 1, !.fault = "download",
                                  !.faultReqs = call.reqs + 1])
    /\ UNCHANGED <<max_results, fetchVars, k, enriched, pc, written, abort>>

DownloadRaises ==
    /\ pc = "window"
    /\ WindowGuard
    /\ Return([call EXCEPT !.reqs = @ + 1, !.fault = "download",
                           !.faultReqs = call.reqs + 1], NullTriple)
    /\ UNCHANGED <<max_results, fetchVars, written, abort>>

\* lines 136-155: yf.download returns the table df
Download(df) ==
    /\ pc = "window"
    /\ WindowGuard
    /\ LET it == Iteration(df, WindowMin, WindowMax)
           c  == IF it.kind = "lookup"
                 THEN [call EXCEPT !.reqs = @ + 1, !.fault = "lookup",
                                   !.faultReqs = call.reqs + 1]
                 ELSE [call EXCEPT !.reqs = @ + 1]
       IN  IF it.ret = None
           THEN /\ call' = Widen(c)
                /\ UNCHANGED <<k, enriched, pc>>
           ELSE Return(c, Val(it.ret))
    /\ UNCHANGED <<max_results, fetchVars, written, abort>>

\* lines 131 and 156: the loop condition fails
WindowExhausted ==
    /\ pc = "window"
    /\ ~WindowGuard
    /\ Return(call, NullTriple)
    /\ UNCHANGED <<max_results, fetchVars, written, abort>>

\* ----------------------------------------------------------------- main
\* lines 172-174: the three price fields set on the record
WithPrices(f, triple) == f @@ triple

\* lines 171-175: the result of the call is attached to the record, which
\* joins enriched; the locals of the call are gone
Attach ==
    /\ pc = "attach"
    /\ enriched' = Append(enriched, WithPrices(results[k], Val(call.ret)))
    /\ k' = k + 1
    /\ call' = NoCall
    /\ pc' = "enrich"
    /\ UNCHANGED <<max_results, fetchVars, written, abort>>

\* lines 177-183
Payload == [count |-> Len(enriched), results |-> enriched]

\* lines 177-188: every record is enriched; the document is written
WriteOutput ==
    /\ pc = "enrich"
    /\ k > Len(results)
    /\ written' = Some(Payload)
    /\ pc' = "done"
    /\ UNCHANGED <<max_results, fetchVars, k, enriched, call, abort>>

Next ==
    \/ SearchFails
    \/ \E n \in 0..Min(page_size, MaxHits - Len(received)) :
         \E page \in [1..n -> HitShapes] :
           \E value \in TotalValues : SearchPage(page, value)
    \/ LoopExit
    \/ ExtractFails
    \/ IndexFails
    \/ \E match \in IndexPages : IndexPage(match)
    \/ AppendRecord
    \/ PageEnd
    \/ Analyze
    \/ DownloadRaises
    \/ /\ pc = "window"
       /\ \E df \in Tables(WindowMin, Val(call.fd), WindowMax) : Download(df)
    \/ WindowExhausted
    \/ Attach
    \/ WriteOutput

Spec == Init /\ [][Next]_vars

\* The single thread of control always takes its next step: every request
\* returns or fails within the transport's timeout and retry cap.
FairSpec == Spec /\ WF_vars(Next)

\* --------------------------------------------------------------- claims
\* get_filings is running
InFetch == pc \in {"loop", "hit", "append", "page_end"}

\* C1: a failing index-page request never aborts the batch: the filing is
\* appended with a null timestamp and get_filings goes on.
C1_IndexFailureNeverAborts == abort # "index"

\* C2 as stated: after any fault of a widening iteration (the download
\* raising or the reading of a close raising) the call has returned all-null
\* and no further window was requested.
C2_AnyFaultEndsSearch ==
    call.fault # "none" =>
        /\ call.ret = Some(NullTriple)
        /\ call.reqs = call.faultReqs

\* C2 amended: a download that raises ends the search in that iteration with
\* all-null and no further window is requested; a fault in reading a close
\* widens the window by one day on each side and the search goes on, to end
\* only at the span limit.
C2_DownloadFaultEndsSearch ==
    /\ call.fault = "download" =>
          /\ pc = "attach"
          /\ call.ret = Some(NullTriple)
          /\ call.reqs = call.faultReqs
    /\ (call.fault = "lookup" /\ call.reqs = call.faultReqs) =>
          /\ call.start_delta = call.reqs + 1
          /\ call.end_delta = call.reqs + 1
          /\ call.ret # None => (~WindowGuard /\ call.ret = Some(NullTriple))

C2_Witness ==
    /\ pc = "attach"
    /\ call.fault = "download"
    /\ call.reqs = 2
    /\ call.ret = Some(NullTriple)

AllOrNothing(r) ==
    \/ r.price_before = None /\ r.price_after = None /\ r.pct_change = None
    \/ r.price_before # None /\ r.price_after # None /\ r.pct_change # None

\* C3: the three price fields of every record, and of every result of
\* analyze_impact, are all null or all non-null.
C3_AllOrNothing ==
    /\ call.ret # None => AllOrNothing(Val(call.ret))
    /\ \A j \in 1..Len(enriched) : AllOrNothing(enriched[j])
    /\ written # None =>
          \A j \in 1..Len(Val(written).results) :
              AllOrNothing(Val(written).results[j])

C3_Witness ==
    /\ written # None
    /\ \E j \in 1..Len(enriched) : enriched[j].pct_change # None
    /\ \E j \in 1..Len(enriched) :
          /\ enriched[j].pct_change = None
          /\ ~Unresolved(enriched[j].ticker)

C4_Bounded ==
    /\ call.reqs <= 4
    /\ call.start_delta = call.end_delta
    /\ pc = "window" =>
          /\ call.start_delta = call.reqs + 1
          /\ call.start_delta <= 5
          /\ ENABLED (DownloadRaises \/ WindowExhausted)
    /\ (pc = "attach" /\ call.start_delta = 5) =>
          /\ call.reqs = 4
          /\ call.ret = Some(NullTriple)

C4_Step ==
    (pc = "window" /\ pc' = "window") =>
        /\ call'.start_delta = call.start_delta + 1
        /\ call'.end_delta = call.end_delta + 1
        /\ call'.reqs = call.reqs + 1

\* C4: the widening loop starts at 1/1, every unsuccessful iteration widens
\* both deltas by one and requests one window, at most four windows are
\* requested, the call always returns, and it returns all-null when the
\* deltas reached 5/5 without a valid pair.
C4_WideningTerminates ==
    /\ []C4_Bounded
    /\ [][C4_Step]_vars
    /\ (pc = "window") ~> (pc = "attach")

C4_Witness ==
    /\ pc = "attach"
    /\ call.start_delta = 5
    /\ call.reqs = 4
    /\ call.ret = Some(NullTriple)

C5_Bounded ==
    /\ searches >= 1 => (searches - 1) * page_size < max_results
    /\ (~InFetch /\ pc # "aborted") => Len(results) = Len(received)

C5_Step ==
    (searches' # searches) =>
        /\ searches' = searches + 1
        /\ searches = 0 \/ Len(filings) >= page_size

\* C5: a search request is only issued when no page was fetched yet or the
\* last page was full; after a short page get_filings returns every record
\* collected; the number of requests is bounded by max_results, so the
\* paging loop ends.
C5_ShortPageEndsPaging ==
    /\ []C5_Bounded
    /\ [][C5_Step]_vars
    /\ InFetch ~> ~InFetch

C5_Witness ==
    /\ pc = "enrich"
    /\ searches = 1
    /\ Len(filings) = 1
    /\ Len(results) = 1
    /\ fetched < max_results
    /\ fetched < Val(total_available)

\* C6: extracting the fields of a hit never raises, whatever is missing or
\* malformed in it.
C6_ExtractionNeverRaises == abort # "extract"

\* C7: a failing search request aborts the run and nothing is written; the
\* document is written only after get_filings returned and every record
\* was analyzed.
C7_NoPartialOutput ==
    /\ abort = "search" => (pc = "aborted" /\ written = None)
    /\ written # None =>
          /\ abort = "none"
          /\ pc = "done"
          /\ k = Len(results) + 1
          /\ Len(enriched) = Len(received)

C7_Witness ==
    /\ abort = "search"
    /\ searches = 2
    /\ Len(results) = page_size
    /\ written = None

C9_EarlyReturn ==
    (/\ call.n > 0
     /\ \/ Unresolved(call.ticker)
        \/ ToDatetime(call.date) = None
        \/ ToDatetime(call.date) = Some(UtcToday)) =>
        /\ pc = "attach"
        /\ call.reqs = 0
        /\ call.ret = Some(NullTriple)

C9_Witness ==
    /\ pc = "attach"
    /\ ~Unresolved(call.ticker)
    /\ ToDatetime(call.date) = Some(UtcToday)
    /\ call.reqs = 0
    /\ call.ret = Some(NullTriple)

\* C10 as stated: get_filings returns at most max_results records.
C10_CapBoundsLength ==
    (~InFetch /\ pc # "aborted") => Len(results) <= max_results

\* C10 amended: a page is requested only while fewer than max_results hits
\* were fetched, so once get_filings returned the records of all pages but
\* the last number fewer than max_results (none at all without a request);
\* the records of the last page come on top of the cap.
C10_CapBoundsPaging ==
    /\ [][searches' # searches => fetched < max_results]_vars
    /\ [](~InFetch /\ pc # "aborted" =>
            IF searches = 0 THEN results = <<>>
            ELSE Len(results) - Len(filings) < max_results)

C10_Witness ==
    /\ pc = "enrich"
    /\ max_results = 1
    /\ Len(results) = page_size
    /\ Len(results) > max_results

====
